---- MODULE Spec2Model ----
(***************************************************************************)
(* Model of the RTSP camera driver (src/src/main.rs): configuration        *)
(* loading, one supervisor per camera that feeds a tokio watch channel,    *)
(* and the SelectAll / filter_map / for_each pipeline that publishes the   *)
(* frames.                                                                 *)
(***************************************************************************)
EXTENDS Integers, Sequences, FiniteSets, TLC

\* ------------------------------------------------------------- bounds
MaxSources == 2
MaxSends == 3

\* ------------------------------------------------------------- configuration
Fields ==
  <<"CAMERA_USERNAME", "CAMERA_PASSWORD", "CAMERA_IP", "CAMERA_PORT",
    "CAMERA_URI_SUFFIX", "STREAM_INDEX">>

FieldSet == {Fields[k] : k \in 1..Len(Fields)}

NumericFields == {"CAMERA_PORT", "STREAM_INDEX"}

ImageFormat == {"Rgb888", "Yuv420"}

\* parse_csv: split(',') of a string yields one item per comma plus one, so
\* the default (empty) string of an absent field still parses to one item.
\* raw = 0 stands for an absent configuration value, raw = k >= 1 for a
\* value with k comma-separated items.
ParsedLen(raw) == IF raw = 0 THEN 1 ELSE raw

MaxOf(S) == CHOOSE m \in S : \A x \in S : x <= m

ConfigFields(raw) == [k \in 1..Len(Fields) |->
                        [name |-> Fields[k], len |-> ParsedLen(raw[Fields[k]])]]

ExpectedFirst(raw) == ConfigFields(raw)[1].len

\* config_fields.iter().map(|(_, l)| *l).max()
Expected(raw) == MaxOf({ConfigFields(raw)[k].len : k \in 1..Len(Fields)})

AllSame(raw) == \A k \in 1..Len(Fields) : ConfigFields(raw)[k].len = Expected(raw)

NoError == [kind |-> "none", field |-> "", details |-> <<>>, expected |-> 0]

\* load_camera_config: CAMERA_IP is required, every item of a numeric field
\* must parse, and all six lists must be as long as the longest one.
LoadCameraConfig(raw, bad) ==
  IF raw["CAMERA_IP"] = 0
    THEN [ok |-> FALSE, n |-> 0,
          err |-> [kind |-> "MissingIp", field |-> "CAMERA_IP",
                   details |-> <<>>, expected |-> 0]]
  ELSE IF bad # "none"
    THEN [ok |-> FALSE, n |-> 0,
          err |-> [kind |-> "InvalidValue", field |-> bad,
                   details |-> <<>>, expected |-> 0]]
  ELSE IF ~AllSame(raw)
    THEN [ok |-> FALSE, n |-> 0,
          err |-> [kind |-> "ConfigMismatch", field |-> "",
                   details |-> ConfigFields(raw), expected |-> Expected(raw)]]
  ELSE [ok |-> TRUE, n |-> ParsedLen(raw["CAMERA_IP"]), err |-> NoError]

\* ------------------------------------------------------------- frames
FrameWidth == 2
FrameHeight == 2
StreamIndex(i) == 0
OutputIndexes == {0, 1}

\* rtsp://[user[:pass]@]host:port/path built from the configured address
\* addr = [ip, port, uri_suffix] of a camera (the credentials play no part
\* in what follows).
RtspUrl(addr) == [host |-> addr.ip, port |-> addr.port, path |-> addr.uri_suffix]

\* Url::parse rejects a port that does not fit 16 bits.
UrlParses(url) == url.port <= 65535

\* format_entity_path: /camera/<host>/<path>, or /camera/unknown when the
\* URL does not parse.
FormatEntityPath(url) ==
  IF UrlParses(url) THEN <<"camera", url.host, url.path>>
                    ELSE <<"camera", "unknown">>

\* Option::None of the watch channel
NoFrame == [src |-> 0, seq |-> 0, len |-> 0, path |-> <<>>]

BytesExpected(fmt) ==
  IF fmt = "Rgb888" THEN FrameWidth * FrameHeight * 3
                    ELSE (FrameWidth * FrameHeight * 3) \div 2

DataLens(fmt) == {BytesExpected(fmt), BytesExpected(fmt) - 1}

\* The ImageRawAny built from a matching output frame: no length validation.
BuildFrame(i, k, len, entity_path) ==
  [src |-> i, seq |-> k, len |-> len, path |-> entity_path]

\* ------------------------------------------------------------- events
MetaKinds ==
  {"ParsedVersion", "ParsedConfiguration", "ParsedStreamMapping", "ParsedInput",
   "ParsedOutput", "ParsedInputStream", "ParsedOutputStream", "ParsedDuration",
   "LogEOF", "Error", "Progress", "OutputChunk", "Done"}

LogLevels == {"Error", "Warning", "Info", "Fatal", "Unknown"}

Event(kind, output_index, len, level, dts) ==
  [kind |-> kind, output_index |-> output_index, len |-> len,
   level |-> level, dts |-> dts]

\* The events the subprocess iterator can yield: those that carry a frame,
\* of one of the given data lengths, and all the others.
FrameEvents(lens) ==
  {Event("OutputFrame", o, len, "Info", FALSE) :
     o \in OutputIndexes, len \in lens}

OtherEvents ==
  {Event(k, 0, 0, "Info", FALSE) : k \in MetaKinds}
    \cup {Event("Log", 0, 0, l, d) : l \in LogLevels, d \in BOOLEAN}

NoEvent == [src |-> 0, ev |-> Event("none", 0, 0, "Info", FALSE), level |-> "none"]

LogClassBySeverity(level, dts) ==
  CASE level = "Error" -> "error"
    [] level = "Warning" -> "warn"
    [] level = "Info" -> "info"
    [] level = "Fatal" -> "error"
    [] level = "Unknown" -> "warn"

\* FfmpegEvent::Log(level, msg): the log macro used; dts stands for
\* msg.contains("non monotonically increasing dts").
LogClass(level, dts) ==
  IF dts THEN "warn"
  ELSE CASE level = "Error" -> "error"
         [] level = "Warning" -> "warn"
         [] level = "Info" -> "info"
         [] level = "Fatal" -> "error"
         [] level = "Unknown" -> "warn"

\* The log macro each arm of the match on the event uses ("none": no line).
Diagnostic(ev) ==
  CASE ev.kind = "Log" -> LogClass(ev.level, ev.dts)
    [] ev.kind \in {"ParsedVersion", "ParsedConfiguration", "ParsedStreamMapping",
                    "ParsedInput", "ParsedOutput", "LogEOF", "Done"} -> "info"
    [] ev.kind \in {"ParsedInputStream", "ParsedOutputStream", "ParsedDuration",
                    "Progress"} -> "debug"
    [] ev.kind = "Error" -> "error"
    [] ev.kind = "OutputChunk" -> "trace"
    [] OTHER -> "none"

\* ------------------------------------------------------------- state
VARIABLES
  cfgRaw,       \* the configuration values: field -> 0 (absent) or item count
  cfgBad,       \* the numeric field holding an unparsable item, or "none"
  image_format, \* IMAGE_FORMAT after ImageFormat::from_str
  emits,        \* the data lengths of the frames the subprocesses emit
  cfgAddr,      \* per source: the configured ip, port and uri_suffix
  record,       \* which history is kept: "none", "events" or "order"
  mainPc,       \* position of main
  config,       \* result of load_camera_config
  idx,          \* sources spawned so far by the loop of main
  sup,          \* per source: lifecycle of spawn_ffmpeg_reader's thread
  reason,       \* per source: why it terminated
  val,          \* per source: the value held by the watch channel
  version,      \* per source: the version of the watch channel
  closed,       \* per source: the sender has been dropped
  rxAlive,      \* per source: the receiver exists
  seen,         \* per source: the version the receiver has marked seen
  stream,       \* per source: state of its WatchStream inside SelectAll
  readyQ,       \* SelectAll's ready-to-run queue
  cur,          \* the frame publish_async is working on
  delivered,    \* frames handed to publish_async, in order
  lastResult,   \* outcome of the last finished publish_async
  sent,         \* per source: matching frames passed to sender.send
  unobs,        \* per source: frames sent since the slot was last observed
  lost,         \* frames overwritten in their slot before being observed
  lastEv,       \* the last event a supervisor consumed, with its log level
  changed       \* sources whose slot holds an unobserved change, oldest first

vars ==
  <<cfgRaw, cfgBad, image_format, emits, mainPc, config, idx, sup, reason, val,
    version, closed, rxAlive, seen, stream, readyQ, cur, delivered, lastResult,
    sent, unobs, lost, cfgAddr, record, lastEv, changed>>

cfgVars == <<cfgRaw, cfgBad, image_format, emits, cfgAddr, record>>
chanVars == <<val, version, closed, rxAlive>>
supVars == <<sup, reason>>
mergeVars == <<seen, stream, readyQ>>
sinkVars == <<cur, delivered, lastResult>>
histVars == <<sent, unobs, lost>>
traceVars == <<lastEv, changed>>

Slots == 1..MaxSources
Sources == 1..config.n

NotLoaded == [ok |-> FALSE, n |-> 0, err |-> NoError]

FrameId(f) == <<f.src, f.seq>>

RECURSIVE SumTo(_, _)
SumTo(f, k) == IF k = 0 THEN 0 ELSE f[k] + SumTo(f, k - 1)

\* Frames passed to send so far, over all sources.
TotalSent == SumTo(sent, MaxSources)

\* The frames of source i within a sequence of frames, as sequence numbers.
RECURSIVE SeqsOf(_, _)
SeqsOf(s, i) ==
  IF s = <<>> THEN <<>>
  ELSE IF Head(s).src = i THEN <<Head(s).seq>> \o SeqsOf(Tail(s), i)
  ELSE SeqsOf(Tail(s), i)

TypeOK ==
  /\ mainPc \in {"load", "publisher", "spawn", "merge", "publishing", "done",
                 "aborted", "panicked", "unwound"}
  /\ idx \in 0..MaxSources
  /\ sup \in [Slots -> {"NotSpawned", "Starting", "Running", "Terminated"}]
  /\ stream \in [Slots -> {"none", "init", "armed", "waiting", "gone"}]
  /\ lastResult \in {"none", "ok", "err"}

\* The state after construction, whatever the configuration is.
Start ==
  /\ mainPc = "load"
  /\ config = NotLoaded
  /\ idx = 0
  /\ sup = [i \in Slots |-> "NotSpawned"]
  /\ reason = [i \in Slots |-> "none"]
  /\ val = [i \in Slots |-> NoFrame]
  /\ version = [i \in Slots |-> 0]
  /\ closed = [i \in Slots |-> FALSE]
  /\ rxAlive = [i \in Slots |-> FALSE]
  /\ seen = [i \in Slots |-> 0]
  /\ stream = [i \in Slots |-> "none"]
  /\ readyQ = <<>>
  /\ cur = NoFrame
  /\ delivered = <<>>
  /\ lastResult = "none"
  /\ sent = [i \in Slots |-> 0]
  /\ unobs = [i \in Slots |-> <<>>]
  /\ lost = {}
  /\ lastEv = NoEvent
  /\ changed = <<>>

\* Camera i at host i, port 554, path i.
DistinctAddr == [i \in Slots |-> [ip |-> i, port |-> 554, uri_suffix |-> i]]

\* Every well-formed configuration of 1..MaxSources cameras, the default
\* pixel format, subprocesses that emit whole frames.
Init ==
  /\ \E n \in 1..MaxSources : cfgRaw = [f \in FieldSet |-> n]
  /\ cfgBad = "none"
  /\ image_format = "Rgb888"
  /\ emits = {BytesExpected(image_format)}
  /\ cfgAddr = DistinctAddr
  /\ record = "none"
  /\ Start

\* Every configuration, well-formed or not.
InitConfig ==
  /\ cfgRaw \in [FieldSet -> 0..MaxSources]
  /\ cfgBad \in {"none"} \cup {f \in NumericFields : cfgRaw[f] >= 1}
  /\ image_format = "Rgb888"
  /\ emits = {BytesExpected(image_format)}
  /\ cfgAddr = DistinctAddr
  /\ record = "none"
  /\ Start

\* One camera, either pixel format, subprocesses that may emit short frames.
InitFrames ==
  /\ cfgRaw \in [FieldSet -> 0..1]
  /\ cfgRaw["CAMERA_IP"] = 1
  /\ cfgBad = "none"
  /\ image_format \in ImageFormat
  /\ emits = DataLens(image_format)
  /\ cfgAddr = DistinctAddr
  /\ record = "none"
  /\ Start

\* ------------------------------------------------------------- watch channel
SlotSendKeepsFirst(old, frame) == IF old = NoFrame THEN frame ELSE old

\* watch::Sender::send stores the new value in place of the held one.
SlotSend(old, frame) == frame

DropEverySender(cl, i) == [j \in DOMAIN cl |-> TRUE]

\* Dropping the sender marks the channel closed.
DropSender(cl, i) == [cl EXCEPT ![i] = TRUE]

\* send and drop notify the receiver: a WatchStream parked on changed() is
\* put back on SelectAll's ready-to-run queue.
WakeStream(st, i) == IF st[i] = "waiting" THEN [st EXCEPT ![i] = "armed"] ELSE st

WakeQueueFront(q, st, i) ==
  IF st[i] = "waiting" THEN <<i>> \o q ELSE q

\* The woken stream is enqueued at the tail of the ready-to-run queue.
WakeQueue(q, st, i) == IF st[i] = "waiting" THEN Append(q, i) ELSE q

MarkSeenNot(sn, ver) == sn

\* Receiver::borrow_and_update marks the current version seen.
MarkSeen(sn, ver) == ver

PollKindEndsWhenIdle(st, ver, sn, cl) ==
  IF st = "init" THEN "item"
  ELSE IF ver # sn THEN "item"
  ELSE "end"

PollKindClosedFirst(st, ver, sn, cl) ==
  IF st = "init" THEN "item"
  ELSE IF cl THEN "end"
  ELSE IF ver # sn THEN "item"
  ELSE "pending"

PollKindAnyTime(st, ver, sn, cl) ==
  IF st \in {"init", "armed"} THEN "item"
  ELSE IF cl THEN "end"
  ELSE "pending"

\* WatchStream::poll_next: a new stream yields the held value at once; after
\* that changed() yields when the version moved, ends when the sender is gone
\* and nothing is unseen, and is pending otherwise.
PollKind(st, ver, sn, cl) ==
  IF st = "init" THEN "item"
  ELSE IF ver # sn THEN "item"
  ELSE IF cl THEN "end"
  ELSE "pending"

\* ------------------------------------------------------------- main
LoadConfig ==
  /\ mainPc = "load"
  /\ config' = LoadCameraConfig(cfgRaw, cfgBad)
  /\ mainPc' = IF config'.ok THEN "publisher" ELSE "aborted"
  /\ UNCHANGED <<traceVars, cfgVars, idx, supVars, chanVars, mergeVars, sinkVars, histVars>>

\* resolve_topic_name / get_publisher, unwrapped with expect
GetPublisher ==
  /\ mainPc = "publisher"
  /\ \E ok \in BOOLEAN : mainPc' = IF ok THEN "spawn" ELSE "panicked"
  /\ UNCHANGED <<traceVars, cfgVars, config, idx, supVars, chanVars, mergeVars, sinkVars,
                 histVars>>

\* One turn of the loop over 0..config.ip.len(): watch::channel(None),
\* receivers.push, tokio::spawn(spawn_ffmpeg_reader(..)).
SpawnSource ==
  /\ mainPc = "spawn"
  /\ idx < config.n
  /\ idx' = idx + 1
  /\ sup' = [sup EXCEPT ![idx + 1] = "Starting"]
  /\ rxAlive' = [rxAlive EXCEPT ![idx + 1] = TRUE]
  /\ UNCHANGED <<traceVars, cfgVars, mainPc, config, reason, val, version, closed,
                 mergeVars, sinkVars, histVars>>

\* SelectAll::new and one push of WatchStream::new(receiver) per receiver.
BuildMerge ==
  /\ mainPc = "spawn"
  /\ idx = config.n
  /\ stream' = [i \in Slots |-> IF i \in Sources THEN "init" ELSE "none"]
  /\ readyQ' = [k \in 1..config.n |-> k]
  /\ mainPc' = "merge"
  /\ UNCHANGED <<traceVars, cfgVars, config, idx, supVars, chanVars, seen, sinkVars,
                 histVars>>

\* ------------------------------------------------------------- supervisor
\* The blocking thread spawns ffmpeg (expect panics on failure) and asks for
\* the event iterator; either failure ends the closure and drops the sender.
LaunchReason(outcome) ==
  IF outcome = "spawn_failed" THEN "launch_failed" ELSE "iter_failed"

TerminateRestarts(i, why) ==
  /\ sup' = [sup EXCEPT ![i] = "Starting"]
  /\ reason' = [reason EXCEPT ![i] = why]
  /\ UNCHANGED <<closed, stream, readyQ>>

\* The closure passed to spawn_blocking returns: the sender it owns is
\* dropped and nothing runs for this source again.
Terminate(i, why) ==
  /\ sup' = [sup EXCEPT ![i] = "Terminated"]
  /\ reason' = [reason EXCEPT ![i] = why]
  /\ closed' = DropSender(closed, i)
  /\ stream' = WakeStream(stream, i)
  /\ readyQ' = WakeQueue(readyQ, stream, i)

Launch(i) ==
  /\ sup[i] = "Starting"
  /\ \E outcome \in {"ok", "spawn_failed", "iter_failed"} :
       IF outcome = "ok"
         THEN /\ sup' = [sup EXCEPT ![i] = "Running"]
              /\ UNCHANGED <<reason, closed, stream, readyQ>>
         ELSE Terminate(i, LaunchReason(outcome))
  /\ UNCHANGED <<traceVars, cfgVars, mainPc, config, idx, val, version, rxAlive, seen,
                 sinkVars, histVars>>

OverwrittenNone(pending) == {}

\* watch::Sender::send replaces the value of the slot: the frame it held, if
\* not yet observed, is dropped.
Overwritten(pending) ==
  IF pending = <<>> THEN {} ELSE {pending[Len(pending)]}

AfterSendErrorContinues(s, i) == s

\* if sender.send(..).is_err() { error!(..); break; }: the loop is left and
\* the closure returns.
AfterSendError(s, i) == [s EXCEPT ![i] = "Terminated"]

\* sender.send(Some(image_any)) of the k-th matching frame of source i.
SendFrame(i, len) ==
  LET f == BuildFrame(i, sent[i] + 1, len, FormatEntityPath(RtspUrl(cfgAddr[i]))) IN
  /\ TotalSent < MaxSends
  /\ sent' = [sent EXCEPT ![i] = @ + 1]
  /\ IF rxAlive[i]
       THEN /\ val' = [val EXCEPT ![i] = SlotSend(@, f)]
            /\ version' = [version EXCEPT ![i] = @ + 1]
            /\ stream' = WakeStream(stream, i)
            /\ readyQ' = WakeQueue(readyQ, stream, i)
            /\ unobs' = [unobs EXCEPT ![i] = Append(@, FrameId(f))]
            /\ lost' = lost \cup Overwritten(unobs[i])
            /\ changed' = IF record = "order" /\ unobs[i] = <<>>
                             THEN Append(changed, [src |-> i,
                                                   parked |-> stream[i] = "waiting"])
                             ELSE changed
            /\ UNCHANGED <<supVars, closed>>
       ELSE /\ sup' = AfterSendError(sup, i)
            /\ reason' = [reason EXCEPT ![i] = "channel_closed"]
            /\ closed' = DropSender(closed, i)
            /\ stream' = WakeStream(stream, i)
            /\ readyQ' = WakeQueue(readyQ, stream, i)
            /\ lost' = lost \cup {FrameId(f)}
            /\ UNCHANGED <<val, version, unobs, changed>>
  /\ UNCHANGED <<cfgVars, mainPc, config, idx, rxAlive, seen, sinkVars>>

\* The event source i consumes, kept when the events are recorded.
Noted(i, ev) ==
  IF record = "events" THEN [src |-> i, ev |-> ev, level |-> Diagnostic(ev)]
                       ELSE lastEv

MatchesAny(ev, i) == TRUE

\* frame.output_index != stream_index => continue
Matches(ev, i) == ev.output_index = StreamIndex(i)

\* One turn of `for event in iter` on an OutputFrame event.
HandleFrame(i) ==
  /\ sup[i] = "Running"
  /\ \E ev \in FrameEvents(emits) :
       /\ lastEv' = Noted(i, ev)
       /\ IF Matches(ev, i)
            THEN SendFrame(i, ev.len)
            ELSE UNCHANGED <<cfgVars, mainPc, config, idx, supVars, chanVars,
                             mergeVars, sinkVars, histVars, changed>>

\* One turn of `for event in iter` on any other event: a log line at most.
HandleOther(i) ==
  /\ sup[i] = "Running"
  /\ IF record = "events"
       THEN \E ev \in OtherEvents : lastEv' = Noted(i, ev)
       ELSE OtherEvents # {} /\ lastEv' = lastEv
  /\ UNCHANGED <<cfgVars, mainPc, config, idx, supVars, chanVars, mergeVars,
                 sinkVars, histVars, changed>>

\* The iterator is exhausted: the closure returns and drops the sender.
EndOfStream(i) ==
  /\ sup[i] = "Running"
  /\ Terminate(i, "stream_ended")
  /\ UNCHANGED <<traceVars, cfgVars, mainPc, config, idx, val, version, rxAlive, seen,
                 sinkVars, histVars>>

\* ------------------------------------------------------------- merge and publish
FilterMapAll(item) == TRUE

\* filter_map(|maybe_image| async move { maybe_image }) keeps Some(image).
FilterMap(item) == item # NoFrame

AfterPendingStays(q) == q

\* A stream that was polled and is pending leaves the ready-to-run queue.
AfterPending(q) == Tail(q)

\* A stream that yielded is pushed back by SelectAll behind the others.
AfterItem(q, i) == Append(Tail(q), i)

\* The entries of the sequence q that are not about source i.
RECURSIVE Without(_, _)
Without(q, i) ==
  IF q = <<>> THEN <<>>
  ELSE IF Head(q).src = i THEN Without(Tail(q), i)
  ELSE <<Head(q)>> \o Without(Tail(q), i)

CanPollConcurrently(pc) == pc \in {"merge", "publishing"}

\* for_each asks the merged stream for the next item only when the future
\* of the previous item has completed.
CanPoll(pc) == pc = "merge"

\* One poll of the stream at the head of SelectAll's ready-to-run queue.
MergePoll ==
  /\ CanPoll(mainPc)
  /\ readyQ # <<>>
  /\ LET i == Head(readyQ)
         kind == PollKind(stream[i], version[i], seen[i], closed[i])
     IN
       CASE kind = "item" ->
              /\ changed' = Without(changed, i)
              /\ seen' = [seen EXCEPT ![i] = MarkSeen(@, version[i])]
              /\ stream' = [stream EXCEPT ![i] = "armed"]
              /\ readyQ' = AfterItem(readyQ, i)
              /\ unobs' = [unobs EXCEPT ![i] = <<>>]
              /\ IF FilterMap(val[i])
                   THEN /\ cur' = val[i]
                        /\ delivered' = Append(delivered, val[i])
                        /\ mainPc' = "publishing"
                   ELSE UNCHANGED <<cur, delivered, mainPc>>
              /\ UNCHANGED rxAlive
         [] kind = "pending" ->
              /\ stream' = [stream EXCEPT ![i] = "waiting"]
              /\ readyQ' = AfterPending(readyQ)
              /\ UNCHANGED <<seen, unobs, cur, delivered, mainPc, rxAlive,
                             changed>>
         [] kind = "end" ->
              /\ stream' = [stream EXCEPT ![i] = "gone"]
              /\ rxAlive' = [rxAlive EXCEPT ![i] = FALSE]
              /\ readyQ' = Tail(readyQ)
              /\ UNCHANGED <<seen, unobs, cur, delivered, mainPc, changed>>
  /\ UNCHANGED <<cfgVars, config, idx, supVars, val, version, closed, lastResult,
                 sent, lost, lastEv>>

Exhausted(st, n) == \E i \in 1..n : st[i] = "gone"

\* SelectAll is terminated when it holds no stream any more.
IsTerminated(st, n) == \A i \in 1..n : st[i] = "gone"

\* SelectAll holds no stream any more: the merged sequence ends, for_each
\* completes and main returns Ok(()).
MergeFinish ==
  /\ mainPc = "merge"
  /\ IsTerminated(stream, config.n)
  /\ mainPc' = "done"
  /\ UNCHANGED <<traceVars, cfgVars, config, idx, supVars, chanVars, mergeVars, sinkVars,
                 histVars>>

AfterPublishStops(ok) == IF ok THEN "merge" ELSE "done"

\* The for_each closure logs a failed publish and returns (): the loop goes on.
AfterPublish(ok) == "merge"

\* publisher.publish_async(&image).await completes, Ok or Err.
SinkComplete ==
  /\ mainPc = "publishing"
  /\ \E ok \in BOOLEAN :
       /\ lastResult' = IF ok THEN "ok" ELSE "err"
       /\ mainPc' = AfterPublish(ok)
  /\ cur' = NoFrame
  /\ UNCHANGED <<traceVars, cfgVars, config, idx, supVars, chanVars, mergeVars, delivered,
                 histVars>>

Next ==
  \/ LoadConfig
  \/ GetPublisher
  \/ SpawnSource
  \/ BuildMerge
  \/ \E i \in Slots : Launch(i)
  \/ \E i \in Slots : HandleFrame(i)
  \/ \E i \in Slots : HandleOther(i)
  \/ \E i \in Slots : EndOfStream(i)
  \/ MergePoll
  \/ MergeFinish
  \/ SinkComplete

Spec == Init /\ [][Next]_vars

SpecConfig == InitConfig /\ [][Next]_vars

SpecFrames == InitFrames /\ [][Next]_vars

\* Any configuration, the order of the unobserved slot changes recorded.
InitOrder ==
  /\ \E n \in 1..MaxSources : cfgRaw = [f \in FieldSet |-> n]
  /\ cfgBad = "none"
  /\ image_format = "Rgb888"
  /\ emits = {BytesExpected(image_format)}
  /\ cfgAddr = DistinctAddr
  /\ record = "order"
  /\ Start

SpecOrder == InitOrder /\ [][Next]_vars

\* The addresses a configuration can name: two hosts, two ports, one path.
Addresses == [ip : {1, 2}, port : {554, 555}, uri_suffix : {1}]

\* Any well-formed configuration with any addresses.
InitPaths ==
  /\ \E n \in 1..MaxSources : cfgRaw = [f \in FieldSet |-> n]
  /\ cfgBad = "none"
  /\ image_format = "Rgb888"
  /\ emits = {BytesExpected(image_format)}
  /\ cfgAddr \in [Slots -> Addresses]
  /\ \A i \in Slots : i > cfgRaw["CAMERA_IP"] => cfgAddr[i] = DistinctAddr[i]
  /\ record = "none"
  /\ Start

SpecPaths == InitPaths /\ [][Next]_vars

\* One camera, the events its supervisor consumes recorded.
InitEvents ==
  /\ cfgRaw = [f \in FieldSet |-> 1]
  /\ cfgBad = "none"
  /\ image_format = "Rgb888"
  /\ emits = {BytesExpected(image_format)}
  /\ cfgAddr = DistinctAddr
  /\ record = "events"
  /\ Start

SpecEvents == InitEvents /\ [][Next]_vars

\* The runtime runs main whenever it can take a step, and a delivery to the
\* sink completes; the subprocesses owe nothing.
MainStep ==
  \/ LoadConfig
  \/ GetPublisher
  \/ SpawnSource
  \/ BuildMerge
  \/ MergePoll
  \/ MergeFinish
  \/ SinkComplete

SpecLive == Init /\ [][Next]_vars /\ WF_vars(MainStep)

\* A panic while main drives the merged stream (in the sink call or in the
\* closure around it) unwinds main: the merged stream is dropped with every
\* receiver and the frame in flight, while the blocking supervisor threads
\* keep running until their closures return.
MainUnwinds ==
  /\ mainPc \in {"merge", "publishing"}
  /\ mainPc' = "unwound"
  /\ rxAlive' = [i \in Slots |-> FALSE]
  /\ stream' = [i \in Slots |-> IF stream[i] = "none" THEN "none" ELSE "gone"]
  /\ readyQ' = <<>>
  /\ cur' = NoFrame
  /\ UNCHANGED <<traceVars, cfgVars, config, idx, supVars, val, version, closed,
                 seen, delivered, lastResult, histVars>>

NextTeardown == Next \/ MainUnwinds

\* The subprocess of source i goes on: it yields a frame of the accepted
\* stream or its event stream ends (ffmpeg runs with a read timeout).
SubprocessStep(i) == HandleFrame(i) \/ EndOfStream(i)

SpecTeardown ==
  /\ Init
  /\ [][NextTeardown]_vars
  /\ WF_vars(MainStep)
  /\ \A i \in Slots : WF_vars(SubprocessStep(i))

\* ------------------------------------------------------------- properties
DeliveredIds == {FrameId(delivered[k]) : k \in 1..Len(delivered)}

LastOf(s) == s[Len(s)]

\* The slot of source i is observed: the merge stage reads its value.
Observes(i) == unobs[i] # <<>> /\ unobs'[i] = <<>>

\* C1: when a slot is observed after several sends, the observation hands
\* exactly the last frame sent to the sink, and a frame that was overwritten
\* before it was observed is never delivered.
C1_Coalescing ==
  /\ [][\A i \in Slots : Observes(i) =>
          /\ mainPc' = "publishing"
          /\ FrameId(cur') = LastOf(unobs[i])
          /\ delivered' = Append(delivered, cur')]_vars
  /\ [](lost \cap DeliveredIds = {})

C1_Witness ==
  \E i \in Slots : {<<i, 1>>, <<i, 2>>} \subseteq lost /\ <<i, 3>> \in DeliveredIds

\* Every send to slot i so far found the previous frame observed.
Prompt(i) == \A id \in lost : id[1] # i

PendingSeqs(i) == [k \in 1..Len(unobs[i]) |-> unobs[i][k][2]]

\* C2: while every send to a slot is observed before the next send, the
\* frames of that source handed to the sink, followed by the one still
\* waiting in the slot, are exactly the frames sent, in the order sent; and
\* none is left waiting once the source's stream has ended.
C2_NoLossWhenPrompt ==
  \A i \in Slots : Prompt(i) =>
    /\ SeqsOf(delivered, i) \o PendingSeqs(i) = [k \in 1..sent[i] |-> k]
    /\ stream[i] = "gone" => unobs[i] = <<>>

C2_Witness ==
  \E i \in Slots : Prompt(i) /\ sent[i] = MaxSends
                      /\ SeqsOf(delivered, i) = [k \in 1..sent[i] |-> k]

\* C3: no frame is handed to the sink twice.
C3_NoDuplication ==
  \A a, b \in 1..Len(delivered) :
    a # b => FrameId(delivered[a]) # FrameId(delivered[b])

C3_Witness ==
  /\ Len(delivered) >= 3
  /\ \E a, b \in 1..Len(delivered) : delivered[a].src # delivered[b].src
  /\ lastResult = "ok"

\* C4: every frame handed to the sink is a frame its source's supervisor
\* sent (never the empty initial value), and the frames of one source are
\* handed over in the order they were sent.
C4_OnlySentInOrder ==
  /\ \A k \in 1..Len(delivered) :
       /\ delivered[k] # NoFrame
       /\ delivered[k].src \in Sources
       /\ delivered[k].seq \in 1..sent[delivered[k].src]
  /\ \A a, b \in 1..Len(delivered) :
       (a < b /\ delivered[a].src = delivered[b].src)
         => delivered[a].seq < delivered[b].seq

C4_Witness ==
  \E i, j \in Slots :
    /\ sent[i] = 0 /\ stream[i] = "waiting"
    /\ Len(SeqsOf(delivered, j)) >= 2


\* Every source's sender has been dropped.
AllClosed == config.ok /\ \A i \in Sources : closed[i]

\* C5: main ends only when every source's sender has been dropped, and once
\* they all have been dropped main does end.
C5_EndsWhenAllClosed ==
  /\ [](mainPc = "done" => AllClosed)
  /\ (AllClosed ~> mainPc = "done")

C5_Witness ==
  /\ mainPc = "done"
  /\ config.n >= 2
  /\ \E a, b \in 1..Len(delivered) : delivered[a].src # delivered[b].src

\* A launch failure of source i: its thread ends before it ever ran.
LaunchFails(i) == sup[i] = "Starting" /\ sup'[i] = "Terminated"

\* C6: main starts one supervisor per configured source, and a launch
\* failure of one source changes nothing of any other source's supervisor
\* or slot and nothing of main, which does not end while another source
\* is still running.
C6_FailureIsolation ==
  /\ [][\A i \in Slots : LaunchFails(i) =>
          /\ \A j \in Slots \ {i} :
               /\ sup'[j] = sup[j]
               /\ closed'[j] = closed[j]
               /\ val'[j] = val[j]
               /\ rxAlive'[j] = rxAlive[j]
          /\ mainPc' = mainPc
          /\ delivered' = delivered]_vars
  /\ [](mainPc \in {"merge", "publishing", "done"} =>
          \A i \in Slots : (sup[i] # "NotSpawned") <=> (i \in Sources))
  /\ []((\E i, j \in Sources : reason[i] = "launch_failed" /\ sup[j] = "Running")
          => mainPc # "done")

C6_Witness ==
  \E i, j \in Sources :
    /\ reason[i] = "launch_failed"
    /\ stream[i] = "gone"
    /\ sup[j] = "Running"
    /\ SeqsOf(delivered, j) = <<1, 2>>
    /\ mainPc = "publishing"

\* C7: a frame waiting in the slot of a source is followed by the delivery
\* of that frame or of a later frame of the same source (the latest one it
\* has sent by then), whatever the other sources do.
C7_StalledSourceDoesNotBlock ==
  \A j \in Slots :
    (unobs[j] # <<>>) ~> (<<j, sent[j]>> \in DeliveredIds)

C7_Witness ==
  \E i, j \in Slots :
    /\ sup[i] = "Running" /\ sent[i] = 0 /\ stream[i] = "waiting"
    /\ SeqsOf(delivered, j) = <<1, 2>>
    /\ lastResult = "ok"

\* A delivery to the sink completes.
Completes == mainPc = "publishing" /\ mainPc' # "publishing"

\* C8: when a delivery fails, main goes back to polling the merged stream,
\* no supervisor and no slot changes, and the frame whose delivery failed is
\* not the next frame handed to the sink.
C8_SinkFailureContinues ==
  /\ [][Completes =>
          /\ mainPc' = "merge"
          /\ sup' = sup /\ reason' = reason
          /\ val' = val /\ version' = version
          /\ closed' = closed /\ rxAlive' = rxAlive
          /\ delivered' = delivered]_vars
  /\ []((lastResult = "err" /\ mainPc = "publishing") =>
          FrameId(cur) # FrameId(delivered[Len(delivered) - 1]))

C8_Witness ==
  /\ lastResult = "err"
  /\ mainPc = "publishing"
  /\ Len(delivered) >= 2

\* The data of frame f is width x height x bytes per pixel long.
WellFormed(f, fmt) == f.len = BytesExpected(fmt)

\* C9: no frame whose data length differs from width x height x bytes per
\* pixel is held by a slot or handed to the sink.
C9_MalformedDropped ==
  /\ \A i \in Slots : val[i] # NoFrame => WellFormed(val[i], image_format)
  /\ \A k \in 1..Len(delivered) : WellFormed(delivered[k], image_format)

\* The lengths of the six parsed lists.
ListLen(f) == IF cfgRaw[f] = 0 THEN 1 ELSE cfgRaw[f]

ListsExist == cfgRaw["CAMERA_IP"] # 0 /\ cfgBad = "none"

NothingStarted ==
  /\ \A i \in Slots : sup[i] = "NotSpawned" /\ ~rxAlive[i] /\ stream[i] = "none"
  /\ delivered = <<>>

\* C10: once the configuration is loaded, lists of different lengths make
\* main abort with an error that names every field with its length and the
\* longest length, before anything is started; lists of one length N are
\* accepted as N sources.
C10_ConfigFailFast ==
  (mainPc # "load" /\ ListsExist) =>
    IF \E f, g \in FieldSet : ListLen(f) # ListLen(g)
      THEN /\ mainPc = "aborted"
           /\ ~config.ok
           /\ config.err.kind = "ConfigMismatch"
           /\ \A f \in FieldSet : \E k \in 1..Len(config.err.details) :
                config.err.details[k] = [name |-> f, len |-> ListLen(f)]
           /\ \A f \in FieldSet : ListLen(f) <= config.err.expected
           /\ \E f \in FieldSet : ListLen(f) = config.err.expected
           /\ NothingStarted
      ELSE /\ mainPc # "aborted"
           /\ config.ok
           /\ \A f \in FieldSet : config.n = ListLen(f)

C10_Witness ==
  /\ mainPc = "aborted"
  /\ cfgRaw = [f \in FieldSet |-> IF f = "CAMERA_PORT" THEN 1 ELSE 2]
  /\ config.err.expected = 2

\* ------------------------------------------------------ diagnostics

\* C11: a log event whose message contains "non monotonically increasing
\* dts" is logged as a warning whatever its upstream severity; any other log
\* event is logged from its upstream severity alone: Error and Fatal as
\* errors, Warning and Unknown as warnings, Info as info.
C11_LogClassification ==
  lastEv.ev.kind = "Log" =>
    IF lastEv.ev.dts THEN lastEv.level = "warn"
    ELSE /\ lastEv.ev.level \in {"Error", "Fatal"} => lastEv.level = "error"
         /\ lastEv.ev.level \in {"Warning", "Unknown"} => lastEv.level = "warn"
         /\ lastEv.ev.level = "Info" => lastEv.level = "info"

C11_Witness ==
  /\ lastEv.ev.kind = "Log"
  /\ lastEv.ev.dts
  /\ lastEv.ev.level = "Fatal"
  /\ lastEv.level = "warn"
  /\ sup[lastEv.src] = "Running"

\* ------------------------------------------------------ termination

C13_StreamEndTerminates ==
  /\ [](\A i \in Slots :
          reason[i] = "stream_ended" => sup[i] = "Terminated" /\ closed[i])
  /\ [][\A i \in Slots :
          sup[i] = "Terminated" =>
            /\ sup'[i] = "Terminated"
            /\ reason'[i] = reason[i]
            /\ sent'[i] = sent[i]
            /\ val'[i] = val[i]
            /\ version'[i] = version[i]
            /\ closed[i] /\ closed'[i]]_vars

C13_Witness ==
  \E i \in Sources :
    /\ reason[i] = "stream_ended"
    /\ sent[i] >= 1
    /\ closed[i]
    /\ stream[i] = "gone"
    /\ \E j \in Sources : sup[j] = "Running" /\ sent[j] >= 1

\* ------------------------------------------------------ publish loop

\* C14: at most one sink delivery is in flight: a frame is taken from the
\* merged stream only while no delivery is in flight, and while one is in
\* flight the publish loop observes no slot and takes no frame until that
\* delivery has completed.
C14_SequentialPublishing ==
  /\ []((mainPc = "publishing") <=> (cur # NoFrame))
  /\ [][/\ delivered' # delivered =>
             /\ mainPc = "merge" /\ cur = NoFrame
             /\ mainPc' = "publishing"
             /\ delivered' = Append(delivered, cur')
        /\ mainPc = "publishing" =>
             /\ seen' = seen
             /\ delivered' = delivered
             /\ cur' = cur \/ (cur' = NoFrame /\ mainPc' = "merge")]_vars

C14_Witness ==
  /\ mainPc = "publishing"
  /\ readyQ # <<>>
  /\ unobs[Head(readyQ)] # <<>>
  /\ Head(readyQ) # cur.src
  /\ Len(delivered) = 1

\* ------------------------------------------------------ cross-source order

\* The position of source i among the unobserved changes (0: none).
RECURSIVE ChangeRank(_, _)
ChangeRank(q, i) ==
  IF q = <<>> THEN 0
  ELSE IF q[Len(q)].src = i THEN Len(q)
  ELSE ChangeRank(SubSeq(q, 1, Len(q) - 1), i)

AcceptedFrame(rec) ==
  /\ rec.ev.kind = "OutputFrame"
  /\ rec.ev.output_index = StreamIndex(rec.src)

\* C16: a slot changes only in a step in which its supervisor consumes an
\* output-frame event whose output index equals the configured stream
\* index; an output-frame event with another index, and every event that is
\* not an output frame, leaves every slot as it was, and the supervisor that
\* consumed it keeps running.
C16_OnlyMatchingFrameChangesSlot ==
  [][/\ \A i \in Slots :
          (val'[i] # val[i] \/ version'[i] # version[i]) =>
             lastEv'.src = i /\ AcceptedFrame(lastEv')
     /\ (lastEv' # lastEv /\ ~AcceptedFrame(lastEv')) =>
          /\ val' = val /\ version' = version /\ sent' = sent
          /\ sup[lastEv'.src] = "Running"
          /\ sup'[lastEv'.src] = "Running"
          /\ closed' = closed]_vars

C16_Witness ==
  /\ lastEv.ev.kind = "OutputFrame"
  /\ lastEv.ev.output_index # StreamIndex(lastEv.src)
  /\ sup[lastEv.src] = "Running"
  /\ sent[lastEv.src] = 1
  /\ version[lastEv.src] = 1

\* ------------------------------------------------------ provenance

\* The provenance path of source i.
EntityPath(i) == FormatEntityPath(RtspUrl(cfgAddr[i]))

\* C17: every delivered frame carries the path derived from the connection
\* parameters of the source whose supervisor produced it, and never the
\* path of another source, one configured with other connection parameters.
C17_Provenance ==
  \A k \in 1..Len(delivered) :
    LET f == delivered[k] IN
      /\ f.path = EntityPath(f.src)
      /\ \A j \in Sources :
           cfgAddr[j] # cfgAddr[f.src] => f.path # EntityPath(j)

\* ------------------------------------------------------ backlog

SentIds == UNION {{<<i, k>> : k \in 1..sent[i]} : i \in Slots}

\* The frames whose delivery has completed.
Finished == DeliveredIds \ {FrameId(cur)}

\* The frames the pipeline still holds: sent, not dropped, not yet through
\* the sink.
InPipeline == SentIds \ (lost \cup Finished)

\* The frames of source i held outside the sink call.
PendingOf(i) == {id \in InPipeline : id[1] = i /\ id # FrameId(cur)}

\* C18: each slot holds at most one pending frame, the value of the slot,
\* and the merge and publish stage holds at most the frame in flight, so
\* the pipeline never holds more than one frame per source plus one.
C18_BoundedBacklog ==
  /\ \A i \in Slots :
       /\ Cardinality(PendingOf(i)) <= 1
       /\ PendingOf(i) \subseteq {FrameId(val[i])}
  /\ InPipeline \subseteq {FrameId(val[i]) : i \in Slots} \cup {FrameId(cur)}
  /\ Cardinality(InPipeline) <= config.n + 1

C18_Witness ==
  /\ config.n = 1
  /\ mainPc = "publishing"
  /\ lost # {}
  /\ PendingOf(1) # {}
  /\ Cardinality(InPipeline) = 2

\* ------------------------------------------------------ closing a slot

\* C19: closing a slot does not discard its pending frame: the observed
\* sequence of a source ends only when nothing sent is left unobserved and
\* its last frame has been delivered, and a frame that is pending when the
\* producer side closes is delivered, the sink completing every delivery.
C19_ClosingKeepsPendingFrame ==
  /\ [](\A i \in Slots :
          stream[i] = "gone" =>
            /\ unobs[i] = <<>>
            /\ sent[i] >= 1 => <<i, sent[i]>> \in DeliveredIds)
  /\ \A i \in Slots :
       (closed[i] /\ unobs[i] # <<>>) ~>
          (stream[i] = "gone" /\ <<i, sent[i]>> \in DeliveredIds)

C19_Witness ==
  \E i \in Sources :
    /\ closed[i]
    /\ reason[i] = "stream_ended"
    /\ unobs[i] # <<>>
    /\ stream[i] = "armed"
    /\ mainPc = "publishing"
    /\ cur.src # i

\* C20: the merge releases the reader side of a slot only after its
\* producer side has closed, and main ends only after every producer side
\* has closed; hence while main runs every send finds its reader and stores
\* its frame, and no supervisor terminates on a closed channel.
C20_SendNeverFails ==
  /\ [](\A i \in Slots :
          /\ (sup[i] # "NotSpawned" /\ ~rxAlive[i]) => closed[i]
          /\ stream[i] = "gone" => closed[i]
          /\ reason[i] # "channel_closed")
  /\ [](mainPc = "done" => \A i \in Sources : closed[i] /\ ~rxAlive[i])
  /\ [][\A i \in Slots :
          sent'[i] # sent[i] =>
            /\ rxAlive[i]
            /\ FrameId(val'[i]) = <<i, sent'[i]>>
            /\ sup'[i] = "Running"]_vars

C20_Witness ==
  \E i, j \in Sources :
    /\ stream[i] = "gone" /\ ~rxAlive[i] /\ closed[i]
    /\ sup[j] = "Running" /\ rxAlive[j]
    /\ stream[j] = "armed"
    /\ unobs[j] = <<<<j, sent[j]>>>>
    /\ sent[j] = 2

====
